---- MODULE Spec2Model ----
(***************************************************************************)
(* Model of projector-rs src/config.rs: the argument classifier            *)
(* (Operation::try_from), the path resolver (get_config, get_pwd) and      *)
(* their composition (Config::try_from).                                   *)
(*                                                                         *)
(* A String token is an atomic string.  A PathBuf is the sequence of the   *)
(* lexical units of its text: the separator "/" or a maximal run of        *)
(* non-separator bytes, so that "/home/u" is <<"/", "home", "/", "u">>     *)
(* and the empty path is << >>.                                            *)
(***************************************************************************)
EXTENDS Integers, Sequences, FiniteSets

VARIABLES args, optPwd, optConfig, xdg, cwd, pc, operation, config, pwd,
          result, queries, lastCall, prevCall, runs

vars == <<args, optPwd, optConfig, xdg, cwd, pc, operation, config, pwd,
          result, queries, lastCall, prevCall, runs>>

(* ---------------- bounds and input sets ---------------- *)
MaxLen == 4
MaxRuns == 3

Tokens == {"add", "rm", "ADD", "Rm", "foo"}

SeqsUpTo(S, n) == UNION {[1..k -> S] : k \in 0..n}

EmptyPath == << >>
HomeConfig == <<"/", "home", "/", "u", "/", ".config">>
EtcSlash == <<"/", "etc", "/">>
WorkDir == <<"/", "srv">>

(* ---------------- Option / Result ---------------- *)
None == [some |-> FALSE]
Some(x) == [some |-> TRUE, val |-> x]

Ok(x) == [kind |-> "Ok", val |-> x]
Err(e) == [kind |-> "Err", err |-> e]
Panic == [kind |-> "Panic"]
Pending == [kind |-> "Pending"]

(* ---------------- Operation ---------------- *)
OpPrint(optKey) == [tag |-> "Print", fields |-> IF optKey.some THEN <<optKey.val>> ELSE << >>]
OpAdd(k, v) == [tag |-> "Add", fields |-> <<k, v>>]
OpRemove(k) == [tag |-> "Remove", fields |-> <<k>>]

(* ---------------- Vec<String> primitives (0-based indices) ---------------- *)
VecGet(v, i) == IF i < Len(v) THEN Some(v[i + 1]) ELSE None
VecPop(v) == IF Len(v) > 0 THEN Some(v[Len(v)]) ELSE None
\* drain(lo..=hi): aborts when the range end exceeds the length
VecDrain(v, lo, hi) ==
  IF hi + 1 > Len(v) THEN [panic |-> TRUE, items |-> << >>]
  ELSE [panic |-> FALSE, items |-> SubSeq(v, lo + 1, hi + 1)]
\* the n-th call of next() on a drain iterator
DrainNext(d, n) == IF n <= Len(d.items) THEN Some(d.items[n]) ELSE None

ArityError(op, expects, got) ==
  [kind |-> "InvalidArguments", op |-> op, expects |-> expects, got |-> got]

AddBranchBadArity(value) ==
  Err(ArityError("add", "2", Len(value) - 1))

RmBranchBadArityFullLen(value) ==
  Err(ArityError("add", "1", Len(value)))

RmBranchBadArity(value) ==
  Err(ArityError("add", "1", Len(value) - 1))

DefaultBranchBadArityLessOne(value) ==
  Err(ArityError("print", "0 or 1", Len(value) - 1))

DefaultBranchBadArity(value) ==
  Err(ArityError("print", "0 or 1", Len(value)))

\* variants of the definitions below, each with one plausible slip
AddBranchSwapped(value) ==
  IF Len(value) # 3 THEN AddBranchBadArity(value)
  ELSE LET drain == VecDrain(value, 1, 2)
           a == DrainNext(drain, 1)
           b == DrainNext(drain, 2)
       IN IF drain.panic \/ ~a.some \/ ~b.some THEN Panic
          ELSE Ok(OpAdd(b.val, a.val))

AddBranch(value) ==
  IF Len(value) # 3 THEN AddBranchBadArity(value)
  ELSE LET drain == VecDrain(value, 1, 2)
           a == DrainNext(drain, 1)
           b == DrainNext(drain, 2)
       IN IF drain.panic \/ ~a.some \/ ~b.some THEN Panic
          ELSE Ok(OpAdd(a.val, b.val))

RmBranchUnchecked(value) ==
  LET drain == VecDrain(value, 1, 1)
      arg == DrainNext(drain, 1)
  IN IF drain.panic \/ ~arg.some THEN Panic ELSE Ok(OpRemove(arg.val))

RmBranch(value) ==
  IF Len(value) # 2 THEN RmBranchBadArity(value)
  ELSE LET arg == VecPop(value)
       IN IF ~arg.some THEN Panic ELSE Ok(OpRemove(arg.val))

DefaultBranch(value) ==
  IF Len(value) > 1 THEN DefaultBranchBadArity(value)
  ELSE Ok(OpPrint(VecPop(value)))

Lower(t) == IF t = "ADD" THEN "add" ELSE IF t = "Rm" THEN "rm" ELSE t

OperationTryFromNoCase(value) ==
  IF Len(value) = 0 THEN Ok(OpPrint(None))
  ELSE LET term == VecGet(value, 0)
       IN IF ~term.some THEN Panic
          ELSE IF Lower(term.val) = "add" THEN AddBranch(value)
          ELSE IF Lower(term.val) = "rm" THEN RmBranch(value)
          ELSE DefaultBranch(value)

OperationTryFrom(value) ==
  IF Len(value) = 0 THEN Ok(OpPrint(None))
  ELSE LET term == VecGet(value, 0)
       IN IF ~term.some THEN Panic
          ELSE IF term.val = "add" THEN AddBranch(value)
          ELSE IF term.val = "rm" THEN RmBranch(value)
          ELSE DefaultBranch(value)

(* ---------------- PathBuf ---------------- *)
IsAbsolute(p) == Len(p) > 0 /\ p[1] = "/"

\* PathBuf::push on unix: an absolute argument replaces the path, otherwise
\* a separator is added unless the path is empty or already ends in one
PathPush(p, seg) ==
  IF IsAbsolute(seg) THEN seg
  ELSE IF Len(p) > 0 /\ p[Len(p)] # "/" THEN p \o <<"/">> \o seg
  ELSE p \o seg

RECURSIVE Names(_)
Names(p) ==
  IF Len(p) = 0 THEN << >>
  ELSE IF p[1] = "/" THEN Names(Tail(p))
  ELSE <<p[1]>> \o Names(Tail(p))

\* Path::components: the root, if any, then the names between separators
Components(p) == (IF IsAbsolute(p) THEN <<"RootDir">> ELSE << >>) \o Names(p)

(* ---------------- environment ---------------- *)
EnvVar(v) ==
  IF v.kind = "Ok" THEN Ok(v.val)
  ELSE Err([kind |-> "EnvironmentLookupFailure",
            context |-> "unable to get XDG_CONFIG_HOME", cause |-> v.kind])

CurrentDir(d) ==
  IF d.kind = "Ok" THEN Ok(d.val)
  ELSE Err([kind |-> "WorkingDirectoryUnavailable",
            context |-> "errored getting current dir", cause |-> d.kind])

(* ---------------- path resolver ---------------- *)
GetConfigFallback(override, env) ==
  IF override.some THEN [res |-> Ok(override.val), reads |-> << >>]
  ELSE LET loc == EnvVar(env)
           base == IF loc.kind # "Ok" THEN HomeConfig ELSE loc.val
       IN [res |-> Ok(PathPush(PathPush(base, <<"projector">>), <<"projector.json">>)),
           reads |-> <<"XDG_CONFIG_HOME">>]

GetConfigOneSegment(override, env) ==
  IF override.some THEN [res |-> Ok(override.val), reads |-> << >>]
  ELSE LET loc == EnvVar(env)
       IN [res |-> IF loc.kind # "Ok" THEN loc
                   ELSE Ok(PathPush(loc.val, <<"projector.json">>)),
           reads |-> <<"XDG_CONFIG_HOME">>]

GetConfig(override, env) ==
  IF override.some THEN [res |-> Ok(override.val), reads |-> << >>]
  ELSE LET loc == EnvVar(env)
       IN [res |-> IF loc.kind # "Ok" THEN loc
                   ELSE Ok(PathPush(PathPush(loc.val, <<"projector">>), <<"projector.json">>)),
           reads |-> <<"XDG_CONFIG_HOME">>]

GetPwdDefault(override, dir) ==
  IF override.some THEN [res |-> Ok(override.val), reads |-> << >>]
  ELSE LET d == CurrentDir(dir)
       IN [res |-> IF d.kind = "Ok" THEN d ELSE Ok(EmptyPath),
           reads |-> <<"current_dir">>]

GetPwd(override, dir) ==
  IF override.some THEN [res |-> Ok(override.val), reads |-> << >>]
  ELSE [res |-> CurrentDir(dir), reads |-> <<"current_dir">>]

MkConfig(op, p, c) == [operation |-> op, pwd |-> p, config |-> c]

(* ---------------- inputs ---------------- *)
ArgSeqs == SeqsUpTo(Tokens, MaxLen)
ConfigOverrides == {None, Some(EmptyPath), Some(WorkDir), Some(EtcSlash)}
PwdOverrides == {None, Some(EmptyPath), Some(HomeConfig)}
XdgValues == {[kind |-> "NotPresent"], [kind |-> "NotUnicode"],
              [kind |-> "Ok", val |-> EmptyPath],
              [kind |-> "Ok", val |-> HomeConfig],
              [kind |-> "Ok", val |-> EtcSlash]}
CwdValues == {[kind |-> "NotFound"], [kind |-> "Ok", val |-> WorkDir]}

RepeatArgSeqs == {<< >>, <<"foo">>}
RepeatPwdOverrides == {None, Some(HomeConfig)}

(* ---------------- state machine ---------------- *)
Fresh ==
  /\ pc = "classify"
  /\ operation = None /\ config = None /\ pwd = None
  /\ result = Pending
  /\ queries = << >>

Init ==
  /\ args \in ArgSeqs
  /\ optPwd \in PwdOverrides
  /\ optConfig \in ConfigOverrides
  /\ xdg \in XdgValues
  /\ cwd \in CwdValues
  /\ Fresh
  /\ lastCall = None /\ prevCall = None
  /\ runs = 1

\* let operation = value.args.try_into()?;
Classify ==
  /\ pc = "classify"
  /\ LET r == OperationTryFrom(args)
     IN IF r.kind = "Ok"
        THEN /\ operation' = Some(r.val)
             /\ pc' = "config"
             /\ UNCHANGED result
        ELSE /\ result' = r
             /\ pc' = "done"
             /\ UNCHANGED operation
  /\ UNCHANGED <<args, optPwd, optConfig, xdg, cwd, config, pwd, queries,
                 lastCall, prevCall, runs>>

ResolveConfigNoStop ==
  /\ pc = "config"
  /\ LET g == GetConfig(optConfig, xdg)
     IN /\ queries' = queries \o g.reads
        /\ prevCall' = lastCall
        /\ lastCall' = Some([override |-> optConfig, env |-> xdg, out |-> g.res])
        /\ config' = Some(IF g.res.kind = "Ok" THEN g.res.val ELSE EmptyPath)
        /\ pc' = "pwd"
        /\ UNCHANGED result
  /\ UNCHANGED <<args, optPwd, optConfig, xdg, cwd, operation, pwd, runs>>

\* let config = get_config(value.config)?;
ResolveConfig ==
  /\ pc = "config"
  /\ LET g == GetConfig(optConfig, xdg)
     IN /\ queries' = queries \o g.reads
        /\ prevCall' = lastCall
        /\ lastCall' = Some([override |-> optConfig, env |-> xdg, out |-> g.res])
        /\ IF g.res.kind = "Ok"
           THEN /\ config' = Some(g.res.val)
                /\ pc' = "pwd"
                /\ UNCHANGED result
           ELSE /\ result' = g.res
                /\ pc' = "done"
                /\ UNCHANGED config
  /\ UNCHANGED <<args, optPwd, optConfig, xdg, cwd, operation, pwd, runs>>

\* let pwd = get_pwd(value.pwd)?;  return Ok(Config { operation, pwd, config });
ResolvePwd ==
  /\ pc = "pwd"
  /\ LET g == GetPwd(optPwd, cwd)
     IN /\ queries' = queries \o g.reads
        /\ IF g.res.kind = "Ok"
           THEN /\ pwd' = Some(g.res.val)
                /\ result' = Ok(MkConfig(operation.val, g.res.val, config.val))
           ELSE /\ result' = g.res
                /\ UNCHANGED pwd
        /\ pc' = "done"
  /\ UNCHANGED <<args, optPwd, optConfig, xdg, cwd, operation, config,
                 lastCall, prevCall, runs>>

\* a further invocation of the program, with its own options and environment
Restart ==
  /\ pc = "done"
  /\ runs < MaxRuns
  /\ runs' = runs + 1
  /\ args' \in RepeatArgSeqs
  /\ optPwd' \in RepeatPwdOverrides
  /\ optConfig' \in ConfigOverrides
  /\ xdg' \in XdgValues
  /\ cwd' \in CwdValues
  /\ pc' = "classify"
  /\ operation' = None /\ config' = None /\ pwd' = None
  /\ result' = Pending
  /\ queries' = << >>
  /\ UNCHANGED <<lastCall, prevCall>>

Next == Classify \/ ResolveConfig \/ ResolvePwd

Spec == Init /\ [][Next]_vars

InitRepeat ==
  /\ args \in RepeatArgSeqs
  /\ optPwd \in RepeatPwdOverrides
  /\ optConfig \in ConfigOverrides
  /\ xdg \in XdgValues
  /\ cwd \in CwdValues
  /\ Fresh
  /\ lastCall = None /\ prevCall = None
  /\ runs = 1

NextRepeat == Classify \/ ResolveConfig \/ ResolvePwd \/ Restart

SpecRepeat == InitRepeat /\ [][NextRepeat]_vars

(* ======================= properties ======================= *)

\* C1: a sequence starting with "add" classifies to Add(2nd token, 3rd token)
\* when it has exactly 3 tokens, and otherwise fails with InvalidArguments
\* reporting expected 2 and actual len - 1.
AddClassified ==
  (pc # "classify" /\ Len(args) > 0 /\ args[1] = "add") =>
    IF Len(args) = 3
    THEN /\ operation = Some([tag |-> "Add", fields |-> <<args[2], args[3]>>])
         /\ result.kind = "Err" => result.err.kind # "InvalidArguments"
    ELSE /\ ~operation.some
         /\ result.kind = "Err"
         /\ result.err.kind = "InvalidArguments"
         /\ result.err.expects = "2"
         /\ result.err.got = Len(args) - 1

AddClassifiedWitness ==
  /\ pc = "done"
  /\ args = <<"add", "rm", "add">>
  /\ result.kind = "Ok"
  /\ result.val.operation = [tag |-> "Add", fields |-> <<"rm", "add">>]

\* C2: a sequence starting with "rm" classifies to Remove(2nd token) when it
\* has exactly 2 tokens, and otherwise fails with InvalidArguments reporting
\* expected 1 and actual len - 1.
RmClassified ==
  (pc # "classify" /\ Len(args) > 0 /\ args[1] = "rm") =>
    IF Len(args) = 2
    THEN /\ operation = Some([tag |-> "Remove", fields |-> <<args[2]>>])
         /\ result.kind = "Err" => result.err.kind # "InvalidArguments"
    ELSE /\ ~operation.some
         /\ result.kind = "Err"
         /\ result.err.kind = "InvalidArguments"
         /\ result.err.expects = "1"
         /\ result.err.got = Len(args) - 1

RmClassifiedWitness ==
  /\ pc = "done"
  /\ args = <<"rm", "foo", "add">>
  /\ result.kind = "Err"
  /\ result.err.expects = "1"
  /\ result.err.got = 2

\* C3: the empty sequence classifies to Print(None); a one-token sequence
\* whose token differs (case-sensitively) from "add" and "rm" classifies to
\* Print(Some(token)).
PrintClassified ==
  /\ (pc # "classify" /\ Len(args) = 0) =>
        operation = Some([tag |-> "Print", fields |-> << >>])
  /\ (pc # "classify" /\ Len(args) = 1 /\ args[1] \notin {"add", "rm"}) =>
        operation = Some([tag |-> "Print", fields |-> <<args[1]>>])

PrintClassifiedWitness ==
  /\ pc = "done"
  /\ args = <<"ADD">>
  /\ result.kind = "Ok"
  /\ result.val.operation = [tag |-> "Print", fields |-> <<"ADD">>]

\* C4: a sequence of length >= 2 whose first token is neither "add" nor "rm"
\* fails with InvalidArguments, and the reported actual count is the full
\* length of the sequence.
KeylessArityRejected ==
  (pc # "classify" /\ Len(args) >= 2 /\ args[1] \notin {"add", "rm"}) =>
    /\ ~operation.some
    /\ pc = "done"
    /\ result.kind = "Err"
    /\ result.err.kind = "InvalidArguments"
    /\ result.err.got = Len(args)

KeylessArityRejectedWitness ==
  /\ pc = "done"
  /\ args = <<"foo", "add", "rm">>
  /\ result.kind = "Err"
  /\ result.err.got = 3

\* C5 as stated: every constructed Config has a non-empty config path, a
\* non-empty working directory and an Operation whose argument count matches
\* its variant (Print 0 or 1, Add 2, Remove 1).
ConfigPathsNonEmpty ==
  result.kind = "Ok" =>
    /\ Len(result.val.config) > 0
    /\ Len(result.val.pwd) > 0
    /\ \/ result.val.operation.tag = "Print" /\ Len(result.val.operation.fields) \in {0, 1}
       \/ result.val.operation.tag = "Add" /\ Len(result.val.operation.fields) = 2
       \/ result.val.operation.tag = "Remove" /\ Len(result.val.operation.fields) = 1

\* C5 amended: every constructed Config has an Operation whose argument count
\* matches its variant; its config path is empty only when an empty config
\* override was supplied and its working directory is empty only when an
\* empty pwd override was supplied.
ConfigPathsNonEmptyUnlessOverridden ==
  result.kind = "Ok" =>
    /\ Len(result.val.config) = 0 => optConfig = Some(EmptyPath)
    /\ Len(result.val.pwd) = 0 => optPwd = Some(EmptyPath)
    /\ \/ result.val.operation.tag = "Print" /\ Len(result.val.operation.fields) \in {0, 1}
       \/ result.val.operation.tag = "Add" /\ Len(result.val.operation.fields) = 2
       \/ result.val.operation.tag = "Remove" /\ Len(result.val.operation.fields) = 1

ConfigPathsWitness ==
  /\ pc = "done"
  /\ result.kind = "Ok"
  /\ ~optConfig.some /\ xdg = [kind |-> "Ok", val |-> EmptyPath]
  /\ ~optPwd.some
  /\ result.val.config = <<"projector", "/", "projector.json">>
  /\ result.val.operation.tag = "Add"

\* C6: an override is used as-is without consulting XDG_CONFIG_HOME or the
\* current directory; without an override, an unset or unreadable
\* XDG_CONFIG_HOME or a failing current-directory query makes construction
\* fail: no default is substituted.
OverrideOrFail ==
  /\ optConfig.some =>
       /\ \A i \in 1..Len(queries) : queries[i] # "XDG_CONFIG_HOME"
       /\ config.some => config.val = optConfig.val
       /\ (pc \in {"pwd", "done"} /\ operation.some) => config.some
  /\ optPwd.some =>
       /\ \A i \in 1..Len(queries) : queries[i] # "current_dir"
       /\ pwd.some => pwd.val = optPwd.val
       /\ (pc = "done" /\ config.some) =>
            (pwd.some /\ result.kind = "Ok" /\ result.val.pwd = optPwd.val)
  /\ (pc = "done" /\ ~optConfig.some /\ xdg.kind # "Ok") =>
       /\ result.kind = "Err"
       /\ ~config.some
       /\ operation.some => result.err.kind = "EnvironmentLookupFailure"
  /\ (pc = "done" /\ ~optPwd.some /\ cwd.kind # "Ok") =>
       /\ result.kind = "Err"
       /\ ~pwd.some
       /\ config.some => result.err.kind = "WorkingDirectoryUnavailable"

OverrideOrFailWitness ==
  /\ pc = "done"
  /\ optConfig = Some(EtcSlash)
  /\ xdg.kind = "NotPresent"
  /\ config = Some(EtcSlash)
  /\ ~optPwd.some /\ cwd.kind # "Ok"
  /\ result.kind = "Err"
  /\ result.err.kind = "WorkingDirectoryUnavailable"
  /\ queries = <<"current_dir">>

\* C7: without an override and with XDG_CONFIG_HOME = b, the resolved path is
\* b followed by the segments "projector" and "projector.json"; two
\* resolutions with the same override, or with no override and the same
\* value of XDG_CONFIG_HOME, give the same path.
DerivedPathDeterministic ==
  /\ (lastCall.some /\ ~lastCall.val.override.some /\ lastCall.val.env.kind = "Ok") =>
       /\ lastCall.val.out.kind = "Ok"
       /\ Components(lastCall.val.out.val) =
            Components(lastCall.val.env.val) \o <<"projector", "projector.json">>
       /\ lastCall.val.env.val = HomeConfig =>
            lastCall.val.out.val =
              <<"/", "home", "/", "u", "/", ".config", "/", "projector", "/", "projector.json">>
  /\ (/\ prevCall.some /\ lastCall.some
      /\ prevCall.val.override = lastCall.val.override
      /\ (lastCall.val.override.some \/ prevCall.val.env = lastCall.val.env)) =>
       prevCall.val.out = lastCall.val.out

DerivedPathDeterministicWitness ==
  /\ prevCall.some /\ lastCall.some
  /\ ~prevCall.val.override.some /\ ~lastCall.val.override.some
  /\ prevCall.val.env = [kind |-> "Ok", val |-> EtcSlash]
  /\ lastCall.val.env = [kind |-> "Ok", val |-> EtcSlash]
  /\ lastCall.val.out = Ok(<<"/", "etc", "/", "projector", "/", "projector.json">>)

\* C8: the classifier is total: for every token sequence it yields exactly
\* one Operation or an InvalidArguments error and never aborts, it makes no
\* query, and which of the two it yields is fixed by the token sequence.
ClassifierTotal ==
  pc # "classify" =>
    /\ result.kind # "Panic"
    /\ operation.some <=>
         \/ Len(args) = 0
         \/ Len(args) = 3 /\ args[1] = "add"
         \/ Len(args) = 2 /\ args[1] = "rm"
         \/ Len(args) = 1 /\ args[1] \notin {"add", "rm"}
    /\ ~operation.some =>
         /\ pc = "done"
         /\ result.kind = "Err"
         /\ result.err.kind = "InvalidArguments"
         /\ queries = << >>
    /\ (operation.some /\ pc = "config") => (queries = << >> /\ result = Pending)

ClassifierTotalWitness ==
  /\ pc = "done"
  /\ args = <<"rm">>
  /\ result.kind = "Err"
  /\ result.err.kind = "InvalidArguments"
  /\ xdg.kind = "NotPresent" /\ cwd.kind # "Ok"

\* C9: construction classifies the args, then resolves the config path, then
\* the working directory, and stops at the first failure; a Config is
\* returned only when all three succeed and then holds the three results.
StepsInOrder ==
  /\ queries \in {<< >>, <<"XDG_CONFIG_HOME">>, <<"current_dir">>,
                  <<"XDG_CONFIG_HOME", "current_dir">>}
  /\ pc = "done" =>
       LET c == OperationTryFrom(args)
           g == GetConfig(optConfig, xdg).res
           p == GetPwd(optPwd, cwd).res
       IN /\ c.kind # "Ok" => (result = c /\ queries = << >>)
          /\ (c.kind = "Ok" /\ g.kind # "Ok") =>
               /\ result = g
               /\ result.err.kind = "EnvironmentLookupFailure"
               /\ queries = <<"XDG_CONFIG_HOME">>
          /\ result.kind = "Ok" =>
               /\ c.kind = "Ok" /\ g.kind = "Ok" /\ p.kind = "Ok"
               /\ result.val = [operation |-> c.val, pwd |-> p.val, config |-> g.val]

StepsInOrderWitness ==
  /\ pc = "done"
  /\ args = <<"rm", "foo">>
  /\ ~optConfig.some /\ xdg.kind = "NotUnicode"
  /\ ~optPwd.some
  /\ result.kind = "Err"
  /\ result.err.kind = "EnvironmentLookupFailure"
  /\ queries = <<"XDG_CONFIG_HOME">>

\* C10: every arity error message names the operation of the branch that
\* produced it: "add" for a first token "add", "rm" for a first token "rm",
\* "print" otherwise.
ErrorNamesOperation ==
  (pc = "done" /\ result.kind = "Err" /\ result.err.kind = "InvalidArguments") =>
    result.err.op = (IF args[1] = "add" THEN "add"
                     ELSE IF args[1] = "rm" THEN "rm" ELSE "print")
====
